---------------------------- MODULE Spec2Model ----------------------------
(***************************************************************************)
(* FreeRTOS digital synthesizer (src/FreeRTOS_Digital_Synth/src/main.c).   *)
(*                                                                         *)
(* The model holds the voice bank and sample_calc, the four FreeRTOS tasks *)
(* (vSampleCalcTask, vPeriodicSPITask, vMIDIInterpreter, vUARTHandlerTask),*)
(* the USART interrupt callback, the two queues and the binary semaphore.  *)
(*                                                                         *)
(* Scheduling.  In Spec any task may take the next step: every preemption  *)
(* a fixed-priority scheduler can produce is one of these interleavings,   *)
(* so a safety property of Spec holds for every priority assignment.       *)
(* FairSpec adds the only progress guarantee the FreeRTOS scheduler gives: *)
(* the highest-priority ready task (priorities of main.c:551-554) runs.    *)
(* CalcSpec and DacSpec apply sample_calc and write_to_MCP4821 to inputs   *)
(* drawn from bounded sets.                                                *)
(***************************************************************************)
EXTENDS Integers, Sequences, FiniteSets, TLC

VARIABLES
    active_voices,      \* main.c:110  struct voices active_voices[4]
    full_queue_flag,    \* main.c:111
    sample_buffer,      \* main.c:112  uint16_t
    sampleQueue,        \* main.c:94   queue of uint16_t samples
    messageQueue,       \* main.c:95   queue of uint8_t MIDI bytes
    UARTsem,            \* main.c:97   binary semaphore: 0 (empty) or 1 (given)
    usart_rx,           \* bytes waiting in the USART receiver (usart_read_wait)
    uart_pc,            \* vUARTHandlerTask: "take" | "read" | "send"
    temp8,              \* main.c:356  byte being pushed by vUARTHandlerTask
    spi_pc,             \* vPeriodicSPITask: "start" | "run" | "delay"
    spi_tx,             \* bytes written to the SPI bus, in order
    midi_pc,            \* vMIDIInterpreter: "recv" | "yield"
    MIDI_message,       \* main.c:395
    calc_pc,            \* vSampleCalcTask: "top" | "send"
    produced,           \* history: sample_buffer after each sample_calc call
    enqueued,           \* history: samples accepted by sampleQueue
    dac_in,             \* history: arguments of write_to_MCP4821
    arrived,            \* history: bytes that entered the USART receiver
    drained,            \* history: bytes read by vUARTHandlerTask
    pushed,             \* history: bytes accepted by messageQueue
    dropped,            \* history: bytes whose push timed out
    popped,             \* history: bytes received by vMIDIInterpreter
    nIrq,               \* history: interrupts taken so far (saturating)
    wake_backlog,       \* history: bytes waiting when the drain task last woke
    calcsThisTick,      \* sample_calc calls since the last tick (saturating)
    retriesThisTick,    \* stalled re-sends since the last tick (saturating)
    input16,            \* argument of a direct write_to_MCP4821 call (DacSpec)
    in_prio_order,      \* history: every task step so far was taken by the
                        \* highest-priority ready task
    main_pc,            \* main: "start" | "usart" | "irq" | "voice" | "type" |
                        \* "counter" | "period" | "test" | "advance" | "write" | "fault" |
                        \* "tasks"; "call": no main
    init_status,        \* results of the clock bring-up calls of main
    xTickCount,         \* the kernel's tick count (TimedSpec)
    xLastWakeTime,      \* main.c:377
    last_attempt,       \* history: tick of the latest dequeue attempt, -1: none
    attempt_gap,        \* history: ticks between the two latest attempts, -1: none
    rx_busy             \* the receiver is shifting in a frame whose start was seen

vars == << active_voices, full_queue_flag, sample_buffer, sampleQueue,
           messageQueue, UARTsem, usart_rx, uart_pc, temp8, spi_pc, spi_tx,
           midi_pc, MIDI_message, calc_pc, produced, enqueued, dac_in,
           arrived, drained, pushed, dropped, popped, nIrq, wake_backlog, calcsThisTick,
           retriesThisTick, input16, in_prio_order, main_pc, init_status,
           xTickCount, xLastWakeTime, last_attempt, attempt_gap, rx_busy >>

sampleVars == << active_voices, full_queue_flag, sample_buffer, calc_pc,
                 produced, enqueued >>
spiVars    == << spi_pc, spi_tx, dac_in >>
uartVars   == << UARTsem, usart_rx, uart_pc, temp8, arrived, drained, pushed,
                 dropped, nIrq, wake_backlog >>
midiVars   == << midi_pc, MIDI_message, popped >>
tickVars   == << calcsThisTick, retriesThisTick >>
mainVars   == << main_pc, init_status >>
timeVars   == << xTickCount, xLastWakeTime, last_attempt, attempt_gap >>

---------------------------------------------------------------------------
(* Bounds of the model *)

\* sampleQueue capacity (xQueueCreate(100, ...) at main.c:546, scaled down)
\* frames received in FrameSpec
MaxFrames == 3
\* ticks counted in TimedSpec
MaxTicks == 60
\* longest period of the voices whose waveforms are evaluated in WaveSpec
WaveMaxPeriod == 40
SampleQueueLen == 2
\* messageQueue capacity (xQueueCreate(100, ...) at main.c:547, scaled down)
MessageQueueLen == 2
\* sample_calc calls made by vSampleCalcTask in one run of the model
MaxSamples == 4
\* bytes that arrive at the USART in one run of the model
MaxBytes == 4
\* largest v_period of the voice banks the tasks start from
MaxPeriod == 3
\* largest v_period of the banks sample_calc is applied to in CalcSpec
CalcMaxPeriod == 2
\* the per-tick counters saturate here
TickCountCap == 2
\* the interrupt counter saturates here
MaxIrq == 2

---------------------------------------------------------------------------
(* Program constants *)

\* main.c:20
DAC_CMD_MASK == 12288
\* main.c:110  active_voices[4], and the loop bound of sample_calc (main.c:136)
NVoices == 4
\* main.c:467
MainPeriod == 5
\* main.c:541
BringUpPeriod == 45
\* the tick rate of the kernel configuration (FreeRTOSConfig.h), used at
\* main.c:26 and main.c:30: 1 kHz
configTICK_RATE_HZ == 1000
\* main.c:26  (portTickType) 1000000 / configTICK_RATE_HZ
portTICK_RATE_uS == 1000000 \div configTICK_RATE_HZ
\* main.c:389 and main.c:369: the period of the output task and the push
\* timeout of the drain task, in ticks
xTimeIncrement == 50 \div portTICK_RATE_uS

Min(a, b) == IF a < b THEN a ELSE b

WaveTypes == {"SQUARE", "SAW", "TRI"}

\* two distinct MIDI bytes (a status byte and a data byte)
Bytes == {144, 60}

---------------------------------------------------------------------------
(* Voice bank *)

\* a slot of the zero-initialised static array (main.c:110): SQUARE is 0
StaticVoice == [v_enable |-> FALSE, v_type |-> "SQUARE", v_counter |-> 0, v_period |-> 0]

\* main.c:464-467: voice 0 once all four assignments are done
MainVoice == [v_enable |-> TRUE, v_type |-> "TRI", v_counter |-> 0, v_period |-> MainPeriod]

MainBank == [i \in 0..(NVoices - 1) |-> IF i = 0 THEN MainVoice ELSE StaticVoice]

\* main.c:538-541: voice 0 as the bring-up block sets it
BringUpVoice ==
    [v_enable |-> TRUE, v_type |-> "SQUARE", v_counter |-> 0, v_period |-> BringUpPeriod]

\* main.c:532-541: every voice disabled, then voice 0 set
BringUpBank == [i \in 0..(NVoices - 1) |-> IF i = 0 THEN BringUpVoice ELSE StaticVoice]

\* sounding voices with a period in 1..maxp and a counter within the period
EnabledVoices(maxp) ==
    { v \in [v_enable : {TRUE}, v_type : WaveTypes, v_counter : 0..maxp, v_period : 1..maxp] :
        v.v_counter <= v.v_period }

\* a plausible slip: the quotient rounded to nearest instead of truncated
fraction_of_FFF_round(num, den) == (2 * 4095 * num + den) \div (2 * den)

\* main.c:175-184.  float(0xFFF) * (float(num)/float(den)), truncated by the
\* cast to uint16_t; for 0 <= num <= den <= 2000 the single-precision result
\* equals the integer quotient below.
fraction_of_FFF(num, den) == (4095 * num) \div den

\* a plausible slip: the saw ramp left at 12 bits, its >> 2 forgotten
WaveAmplitude_noshift(v) ==
    IF v.v_type = "SQUARE"
    THEN (IF v.v_counter <= v.v_period \div 2 THEN 4095 \div 4 ELSE 0)
    ELSE IF v.v_type = "SAW"
    THEN fraction_of_FFF(v.v_counter, v.v_period)
    ELSE IF v.v_counter <= v.v_period \div 2
         THEN fraction_of_FFF(v.v_counter * 2, v.v_period) \div 4
         ELSE fraction_of_FFF((v.v_period - v.v_counter) * 2, v.v_period) \div 4

\* main.c:141-164: what sample_calc adds to sample_buffer for an enabled voice
WaveAmplitude(v) ==
    IF v.v_type = "SQUARE"
    THEN (IF v.v_counter <= v.v_period \div 2 THEN 4095 \div 4 ELSE 0)
    ELSE IF v.v_type = "SAW"
    THEN fraction_of_FFF(v.v_counter, v.v_period) \div 4
    ELSE IF v.v_counter <= v.v_period \div 2
         THEN fraction_of_FFF(v.v_counter * 2, v.v_period) \div 4
         ELSE fraction_of_FFF((v.v_period - v.v_counter) * 2, v.v_period) \div 4

\* a plausible slip: <= for < lets the counter pass the period
CounterAdvance_le(v) ==
    IF v.v_counter <= v.v_period
    THEN [v EXCEPT !.v_counter = v.v_counter + 1]
    ELSE [v EXCEPT !.v_counter = 0]

\* a plausible slip: wrapping one step early, a cycle of period samples
CounterAdvance_early(v) ==
    IF v.v_counter + 1 < v.v_period
    THEN [v EXCEPT !.v_counter = v.v_counter + 1]
    ELSE [v EXCEPT !.v_counter = 0]

\* main.c:166-170
CounterAdvance(v) ==
    IF v.v_counter < v.v_period
    THEN [v EXCEPT !.v_counter = v.v_counter + 1]
    ELSE [v EXCEPT !.v_counter = 0]

\* main.c:136-172: the loop of sample_calc from index j on
RECURSIVE sample_calc_loop(_, _, _)
sample_calc_loop(j, bank, buf) ==
    IF j >= NVoices
    THEN [voices |-> bank, sample_buffer |-> buf]
    ELSE LET v  == bank[j]
             b0 == 0                                       \* main.c:138
             b1 == IF v.v_enable THEN (b0 + WaveAmplitude(v)) % 65536 ELSE b0
             v1 == IF v.v_enable THEN CounterAdvance(v) ELSE v
         IN  sample_calc_loop(j + 1, [bank EXCEPT ![j] = v1], b1)

\* main.c:134-173
sample_calc(bank, buf) == sample_calc_loop(0, bank, buf)

---------------------------------------------------------------------------
(* DAC framing *)

\* little-endian halves of a 16-bit word (union u16_to_u8, main.c:35-38)
U8(word, i) == IF i = 0 THEN word % 256 ELSE (word \div 256) % 256

\* a plausible slip: the two bytes sent in memory order
write_to_MCP4821_swapped(in16) ==
    LET u16 == ((in16 % 4096) + DAC_CMD_MASK) % 65536
    IN  << U8(u16, 0), U8(u16, 1) >>

\* main.c:116-131: the two bytes handed to spi_write_buffer_wait
write_to_MCP4821(in16) ==
    LET u16 == ((in16 % 4096) + DAC_CMD_MASK) % 65536      \* (in & 0xFFF) | 0x3000
    IN  << U8(u16, 1), U8(u16, 0) >>

---------------------------------------------------------------------------
(* Scheduling *)

\* uxPriority arguments of xTaskCreate, main.c:551-554
uxPriority(t) ==
    IF t = "Synth" THEN 1 ELSE IF t = "MIDI" THEN 2 ELSE IF t = "SPI" THEN 3 ELSE 4

\* tasks the bring-up block creates (main.c:551-553; the xTaskCreate of
\* vUARTHandlerTask at main.c:554 is disabled)
Created == {"Synth", "MIDI", "SPI"}

\* the tasks of the design: those the source creates and the drain task,
\* whose xTaskCreate (main.c:554) is disabled
Tasks == Created \cup {"UART"}

\* a task is ready unless it waits in a blocking call: vTaskDelayUntil with
\* a wake time ahead of the tick count (main.c:389) or xSemaphoreTake
\* (main.c:363).  xQueueSendToBack (main.c:369) is called with a block time of
\* xTimeIncrement = 0 ticks and never waits; vMIDIInterpreter and
\* vSampleCalcTask make no blocking call
Ready(t) ==
    IF t = "SPI" THEN spi_pc # "delay"
    ELSE IF t = "UART" THEN ~(uart_pc = "take" /\ UARTsem = 0)
    ELSE TRUE

\* the fixed-priority rule: t is ready and no ready task outranks it
Scheduled(t) ==
    /\ Ready(t)
    /\ \A u \in Tasks : Ready(u) => uxPriority(u) <= uxPriority(t)

\* bookkeeping of a step of task t
Ran(t) == in_prio_order' = (in_prio_order /\ Scheduled(t))

---------------------------------------------------------------------------
(* Initial states *)

\* the banks the tasks start from: slot 0 as the bring-up block leaves it
\* (main.c:538-541) or silent, slot 3 silent or sounding, slots 1 and 2
\* silent
TaskBanks ==
    { [i \in 0..(NVoices - 1) |->
          IF i = 0 THEN v0 ELSE IF i = NVoices - 1 THEN v3 ELSE StaticVoice] :
        v0 \in {StaticVoice, BringUpVoice},
        v3 \in {StaticVoice} \cup EnabledVoices(MaxPeriod) }

\* the banks sample_calc is applied to in CalcSpec
CalcBanks ==
    [0..(NVoices - 1) -> {StaticVoice} \cup EnabledVoices(CalcMaxPeriod)]
        \cup {MainBank, BringUpBank}

InitGlobals ==
    /\ full_queue_flag = FALSE          \* static bool, main.c:111 (and :530)
    /\ sample_buffer = 0                \* static uint16_t, main.c:112
    /\ sampleQueue = << >>
    /\ messageQueue = << >>
    /\ UARTsem = 0
    /\ usart_rx = << >>
    /\ uart_pc = "take"
    /\ temp8 = 0
    /\ spi_pc = "start"
    /\ spi_tx = << >>
    /\ midi_pc = "recv"
    /\ MIDI_message = 0
    /\ calc_pc = "top"
    /\ produced = << >>
    /\ enqueued = << >>
    /\ dac_in = << >>
    /\ arrived = << >>
    /\ drained = << >>
    /\ pushed = << >>
    /\ dropped = << >>
    /\ popped = << >>
    /\ nIrq = 0
    /\ wake_backlog = 0
    /\ calcsThisTick = 0
    /\ retriesThisTick = 0
    /\ in_prio_order = TRUE
    /\ xTickCount = 0
    /\ xLastWakeTime = 0
    /\ last_attempt = -1
    /\ attempt_gap = -1
    /\ rx_busy = FALSE

\* the state the task specifications start from: the start-up the design
\* describes, taken as done: clocks up, queues and semaphore created, the
\* tasks of Tasks created, the scheduler started, every task at the top of
\* its function.  main never gets there: it stays in its test loop
\* (main.c:491-510), and the block that would follow (main.c:529-557) is
\* disabled and creates neither the semaphore nor the drain task
InitRest ==
    /\ InitGlobals
    /\ main_pc = "tasks"
    /\ init_status = << "ok", "ok" >>

\* the state a function is called in directly: the globals as the loader
\* leaves them, no task and no step of main involved
InitCall ==
    /\ InitGlobals
    /\ main_pc = "call"
    /\ init_status = << "none", "none" >>

\* the state at the entry of main (main.c:436): the zero-initialised bank
InitMain ==
    /\ active_voices = [i \in 0..(NVoices - 1) |-> StaticVoice]
    /\ input16 = 0
    /\ InitGlobals
    /\ main_pc = "start"
    /\ init_status = << "none", "none" >>

Init ==
    /\ active_voices \in TaskBanks
    /\ input16 = 0
    /\ InitRest

\* the command path runs beside the bank the design starts with: every
\* voice disabled, which is also the static array of main.c:110
InitCmd ==
    /\ active_voices = [i \in 0..(NVoices - 1) |-> StaticVoice]
    /\ input16 = 0
    /\ InitRest

InitCalc ==
    /\ active_voices \in CalcBanks
    /\ input16 = 0
    /\ InitCall

\* a silenced voice that stopped in mid-cycle
RestingVoice == [v_enable |-> FALSE, v_type |-> "SAW", v_counter |-> 1, v_period |-> MaxPeriod]

\* voices starting a cycle: enabled, counter 0, any waveform, period 1..maxp
StartingVoices(maxp) == { v \in EnabledVoices(maxp) : v.v_counter = 0 }

\* banks in which every sounding voice is at the start of its cycle
CycleBanks ==
    { b \in [0..(NVoices - 1) -> {StaticVoice, RestingVoice} \cup StartingVoices(MaxPeriod)] :
        /\ b[0] # RestingVoice
        /\ b[1] \in {StaticVoice, RestingVoice}
        /\ b[2] = StaticVoice
        /\ b[3] # RestingVoice }

InitCycle ==
    /\ active_voices \in CycleBanks
    /\ input16 = 0
    /\ InitCall

\* one voice of any waveform, period and phase in the last slot, whose
\* amplitude is what a call leaves in sample_buffer, beside main's voice 0
WaveBanks ==
    { [i \in 0..(NVoices - 1) |->
          IF i = 0 THEN v0 ELSE IF i = NVoices - 1 THEN v3 ELSE StaticVoice] :
        v0 \in {StaticVoice, MainVoice}, v3 \in EnabledVoices(WaveMaxPeriod) }

InitWave ==
    /\ active_voices \in WaveBanks
    /\ input16 = 0
    /\ InitCall

InitDac ==
    /\ active_voices = MainBank
    /\ input16 \in 0..65535
    /\ InitCall

---------------------------------------------------------------------------
(* vSampleCalcTask, main.c:412-433 *)

\* main.c:419-423: one pass of while(full_queue_flag)
SampleRetry ==
    /\ calc_pc = "top"
    /\ full_queue_flag
    /\ IF Len(sampleQueue) < SampleQueueLen
       THEN /\ sampleQueue' = Append(sampleQueue, sample_buffer)
            /\ enqueued' = Append(enqueued, sample_buffer)
            /\ full_queue_flag' = FALSE
       ELSE UNCHANGED << sampleQueue, enqueued, full_queue_flag >>
    /\ retriesThisTick' = Min(retriesThisTick + 1, TickCountCap)
    /\ UNCHANGED << active_voices, sample_buffer, calc_pc, produced, calcsThisTick >>
    /\ UNCHANGED << spiVars, uartVars, midiVars, messageQueue, input16 >>
    /\ Ran("Synth")
    /\ UNCHANGED << mainVars, timeVars, rx_busy >>

\* main.c:425: sample_calc(), reached when full_queue_flag is false
SampleCalc ==
    /\ calc_pc = "top"
    /\ ~full_queue_flag
    /\ Len(produced) < MaxSamples
    /\ LET r == sample_calc(active_voices, sample_buffer)
       IN  /\ active_voices' = r.voices
           /\ sample_buffer' = r.sample_buffer
           /\ produced' = Append(produced, r.sample_buffer)
    /\ calc_pc' = "send"
    /\ calcsThisTick' = Min(calcsThisTick + 1, TickCountCap)
    /\ UNCHANGED << full_queue_flag, sampleQueue, enqueued, retriesThisTick >>
    /\ UNCHANGED << spiVars, uartVars, midiVars, messageQueue, input16 >>
    /\ Ran("Synth")
    /\ UNCHANGED << mainVars, timeVars, rx_busy >>

\* a plausible slip: a failed send is forgotten (the sample is dropped)
SampleSend_drop ==
    /\ calc_pc = "send"
    /\ IF Len(sampleQueue) < SampleQueueLen
       THEN /\ sampleQueue' = Append(sampleQueue, sample_buffer)
            /\ enqueued' = Append(enqueued, sample_buffer)
       ELSE UNCHANGED << sampleQueue, enqueued >>
    /\ calc_pc' = "top"
    /\ UNCHANGED << active_voices, sample_buffer, full_queue_flag, produced, tickVars >>
    /\ UNCHANGED << spiVars, uartVars, midiVars, messageQueue, input16 >>
    /\ Ran("Synth")
    /\ UNCHANGED << mainVars, timeVars, rx_busy >>

\* main.c:427-431: the send of the fresh sample
SampleSend ==
    /\ calc_pc = "send"
    /\ IF Len(sampleQueue) < SampleQueueLen
       THEN /\ sampleQueue' = Append(sampleQueue, sample_buffer)
            /\ enqueued' = Append(enqueued, sample_buffer)
            /\ UNCHANGED full_queue_flag
       ELSE /\ full_queue_flag' = TRUE
            /\ UNCHANGED << sampleQueue, enqueued >>
    /\ calc_pc' = "top"
    /\ UNCHANGED << active_voices, sample_buffer, produced, tickVars >>
    /\ UNCHANGED << spiVars, uartVars, midiVars, messageQueue, input16 >>
    /\ Ran("Synth")
    /\ UNCHANGED << mainVars, timeVars, rx_busy >>

vSampleCalcTask == SampleRetry \/ SampleCalc \/ SampleSend

---------------------------------------------------------------------------
(* vPeriodicSPITask, main.c:374-391 *)

\* a plausible slip: the newest sample is taken instead of the oldest
SPIRun_newest ==
    /\ spi_pc = "run"
    /\ IF sampleQueue # << >>
       THEN LET sample_to_send == sampleQueue[Len(sampleQueue)]
            IN  /\ sampleQueue' = SubSeq(sampleQueue, 1, Len(sampleQueue) - 1)
                /\ dac_in' = Append(dac_in, sample_to_send)
                /\ spi_tx' = spi_tx \o write_to_MCP4821(sample_to_send)
       ELSE UNCHANGED << sampleQueue, dac_in, spi_tx >>
    /\ last_attempt' = xTickCount
    /\ attempt_gap' = IF last_attempt = -1 THEN -1 ELSE xTickCount - last_attempt
    /\ xLastWakeTime' = xLastWakeTime + xTimeIncrement
    /\ spi_pc' = IF xLastWakeTime + xTimeIncrement > xTickCount THEN "delay" ELSE "run"
    /\ UNCHANGED xTickCount
    /\ UNCHANGED << sampleVars, tickVars, uartVars, midiVars, messageQueue, input16 >>
    /\ Ran("SPI")
    /\ UNCHANGED << mainVars, rx_busy >>

\* a plausible slip: silence is sent when the queue is empty
SPIRun_silence ==
    /\ spi_pc = "run"
    /\ IF sampleQueue # << >>
       THEN LET sample_to_send == Head(sampleQueue)
            IN  /\ sampleQueue' = Tail(sampleQueue)
                /\ dac_in' = Append(dac_in, sample_to_send)
                /\ spi_tx' = spi_tx \o write_to_MCP4821(sample_to_send)
       ELSE /\ dac_in' = Append(dac_in, 0)
            /\ spi_tx' = spi_tx \o write_to_MCP4821(0)
            /\ UNCHANGED sampleQueue
    /\ last_attempt' = xTickCount
    /\ attempt_gap' = IF last_attempt = -1 THEN -1 ELSE xTickCount - last_attempt
    /\ xLastWakeTime' = xLastWakeTime + xTimeIncrement
    /\ spi_pc' = IF xLastWakeTime + xTimeIncrement > xTickCount THEN "delay" ELSE "run"
    /\ UNCHANGED xTickCount
    /\ UNCHANGED << sampleVars, tickVars, uartVars, midiVars, messageQueue, input16 >>
    /\ Ran("SPI")
    /\ UNCHANGED << mainVars, rx_busy >>

\* main.c:377: the task's first step reads the tick count
SPIStart ==
    /\ spi_pc = "start"
    /\ spi_pc' = "run"
    /\ xLastWakeTime' = xTickCount
    /\ UNCHANGED << xTickCount, last_attempt, attempt_gap, spi_tx, dac_in, sampleQueue >>
    /\ UNCHANGED << sampleVars, tickVars, uartVars, midiVars, messageQueue, input16 >>
    /\ Ran("SPI")
    /\ UNCHANGED << mainVars, rx_busy >>

\* main.c:384-389: one pass of the loop: one dequeue attempt, then
\* vTaskDelayUntil, which moves xLastWakeTime on by xTimeIncrement and blocks
\* only if that time is still ahead of the tick count
SPIRun ==
    /\ spi_pc = "run"
    /\ IF sampleQueue # << >>
       THEN LET sample_to_send == Head(sampleQueue)
            IN  /\ sampleQueue' = Tail(sampleQueue)
                /\ dac_in' = Append(dac_in, sample_to_send)
                /\ spi_tx' = spi_tx \o write_to_MCP4821(sample_to_send)
       ELSE UNCHANGED << sampleQueue, dac_in, spi_tx >>
    /\ last_attempt' = xTickCount
    /\ attempt_gap' = IF last_attempt = -1 THEN -1 ELSE xTickCount - last_attempt
    /\ xLastWakeTime' = xLastWakeTime + xTimeIncrement
    /\ spi_pc' = IF xLastWakeTime + xTimeIncrement > xTickCount THEN "delay" ELSE "run"
    /\ UNCHANGED xTickCount
    /\ UNCHANGED << sampleVars, tickVars, uartVars, midiVars, messageQueue, input16 >>
    /\ Ran("SPI")
    /\ UNCHANGED << mainVars, rx_busy >>

vPeriodicSPITask == SPIStart \/ SPIRun

\* the scheduler tick (SAMPLE_FREQ is configTICK_RATE_HZ, main.c:30), its
\* count not followed
Tick ==
    /\ calcsThisTick' = 0
    /\ retriesThisTick' = 0
    /\ UNCHANGED << sampleVars, sampleQueue, spiVars, uartVars, midiVars,
                    messageQueue, input16 >>
    /\ UNCHANGED << in_prio_order, mainVars, timeVars, rx_busy >>

\* the kernel's tick: the count moves on and a task whose wake time has come
\* leaves vTaskDelayUntil (main.c:389); a tick that finds the output task
\* ready has kept it from running, which the priority rule does not do
TickTimed ==
    /\ xTickCount < MaxTicks
    /\ xTickCount' = xTickCount + 1
    /\ spi_pc' = IF spi_pc = "delay" /\ xLastWakeTime <= xTickCount + 1
                 THEN "run" ELSE spi_pc
    /\ calcsThisTick' = 0
    /\ retriesThisTick' = 0
    /\ UNCHANGED << xLastWakeTime, last_attempt, attempt_gap, spi_tx, dac_in >>
    /\ UNCHANGED << sampleVars, sampleQueue, uartVars, midiVars, messageQueue, input16 >>
    /\ in_prio_order' = (in_prio_order /\ ~Ready("SPI"))
    /\ UNCHANGED << mainVars, rx_busy >>

---------------------------------------------------------------------------
(* USART receiver and its interrupt *)

\* a byte enters the receiver (the input stream of usart_read_wait, main.c:366)
ByteArrives ==
    /\ Len(arrived) < MaxBytes
    /\ \E b \in Bytes :
          /\ usart_rx' = Append(usart_rx, b)
          /\ arrived' = Append(arrived, b)
    /\ UNCHANGED << UARTsem, uart_pc, temp8, drained, pushed, dropped, nIrq, wake_backlog >>
    /\ UNCHANGED << sampleVars, sampleQueue, spiVars, tickVars, midiVars,
                    messageQueue, input16 >>
    /\ UNCHANGED << in_prio_order, mainVars, timeVars, rx_busy >>

\* main.c:340-349: xSemaphoreGiveFromISR on a binary semaphore
usart_read_callback ==
    /\ UARTsem' = 1
    /\ nIrq' = Min(nIrq + 1, MaxIrq)
    /\ UNCHANGED << usart_rx, uart_pc, temp8, arrived, drained, pushed, dropped,
                    wake_backlog >>
    /\ UNCHANGED << sampleVars, sampleQueue, spiVars, tickVars, midiVars,
                    messageQueue, input16 >>
    /\ UNCHANGED << in_prio_order, mainVars, timeVars, rx_busy >>

\* main.c:282, 292-294, 340-349: the callback is registered for
\* USART_CALLBACK_START_RECEIVED with start-of-frame detection enabled, so it
\* runs when the start of a frame is seen on the line, before the frame's
\* byte is in the receiver
FrameStart ==
    /\ ~rx_busy
    /\ Len(arrived) < MaxFrames
    /\ rx_busy' = TRUE
    /\ UARTsem' = 1
    /\ nIrq' = Min(nIrq + 1, MaxIrq)
    /\ UNCHANGED << usart_rx, uart_pc, temp8, arrived, drained, pushed, dropped,
                    wake_backlog >>
    /\ UNCHANGED << sampleVars, sampleQueue, spiVars, tickVars, midiVars,
                    messageQueue, input16 >>
    /\ UNCHANGED << in_prio_order, mainVars, timeVars >>

\* the frame is complete: its byte is what usart_read_wait (main.c:366)
\* returns next
FrameComplete ==
    /\ rx_busy
    /\ rx_busy' = FALSE
    /\ \E b \in Bytes :
          /\ usart_rx' = Append(usart_rx, b)
          /\ arrived' = Append(arrived, b)
    /\ UNCHANGED << UARTsem, uart_pc, temp8, drained, pushed, dropped, nIrq, wake_backlog >>
    /\ UNCHANGED << sampleVars, sampleQueue, spiVars, tickVars, midiVars,
                    messageQueue, input16 >>
    /\ UNCHANGED << in_prio_order, mainVars, timeVars >>

---------------------------------------------------------------------------
(* vUARTHandlerTask, main.c:353-372 *)

\* main.c:363: xSemaphoreTake(UARTsem, portMAX_DELAY) returns
UARTTake ==
    /\ uart_pc = "take"
    /\ UARTsem = 1
    /\ UARTsem' = 0
    /\ uart_pc' = "read"
    /\ wake_backlog' = Len(usart_rx)
    /\ UNCHANGED << usart_rx, temp8, arrived, drained, pushed, dropped, nIrq >>
    /\ UNCHANGED << sampleVars, sampleQueue, spiVars, tickVars, midiVars,
                    messageQueue, input16 >>
    /\ Ran("UART")
    /\ UNCHANGED << mainVars, timeVars, rx_busy >>

\* main.c:366-368: the loop test usart_read_wait(...) == STATUS_OK and the cast
UARTRead ==
    /\ uart_pc = "read"
    /\ IF usart_rx # << >>
       THEN /\ temp8' = Head(usart_rx) % 256
            /\ usart_rx' = Tail(usart_rx)
            /\ drained' = Append(drained, Head(usart_rx))
            /\ uart_pc' = "send"
       ELSE /\ uart_pc' = "take"
            /\ UNCHANGED << temp8, usart_rx, drained >>
    /\ UNCHANGED << UARTsem, arrived, pushed, dropped, nIrq, wake_backlog >>
    /\ UNCHANGED << sampleVars, sampleQueue, spiVars, tickVars, midiVars,
                    messageQueue, input16 >>
    /\ Ran("UART")
    /\ UNCHANGED << mainVars, timeVars, rx_busy >>

\* a plausible slip: one byte per signal (the task blocks again after a push)
UARTSendOk_once ==
    /\ uart_pc = "send"
    /\ Len(messageQueue) < MessageQueueLen
    /\ messageQueue' = Append(messageQueue, temp8)
    /\ pushed' = Append(pushed, temp8)
    /\ uart_pc' = "take"
    /\ UNCHANGED << UARTsem, usart_rx, temp8, arrived, drained, dropped, nIrq, wake_backlog >>
    /\ UNCHANGED << sampleVars, sampleQueue, spiVars, tickVars, midiVars, input16 >>
    /\ Ran("UART")
    /\ UNCHANGED << mainVars, timeVars, rx_busy >>

\* main.c:369: xQueueSendToBack finds a free slot
UARTSendOk ==
    /\ uart_pc = "send"
    /\ Len(messageQueue) < MessageQueueLen
    /\ messageQueue' = Append(messageQueue, temp8)
    /\ pushed' = Append(pushed, temp8)
    /\ uart_pc' = "read"
    /\ UNCHANGED << UARTsem, usart_rx, temp8, arrived, drained, dropped, nIrq, wake_backlog >>
    /\ UNCHANGED << sampleVars, sampleQueue, spiVars, tickVars, midiVars, input16 >>
    /\ Ran("UART")
    /\ UNCHANGED << mainVars, timeVars, rx_busy >>

\* a plausible slip: the byte that timed out is pushed over the newest entry
UARTSendTimeout_overwrite ==
    /\ uart_pc = "send"
    /\ Len(messageQueue) = MessageQueueLen
    /\ messageQueue' = [messageQueue EXCEPT ![Len(messageQueue)] = temp8]
    /\ dropped' = Append(dropped, temp8)
    /\ uart_pc' = "read"
    /\ UNCHANGED << UARTsem, usart_rx, temp8, arrived, drained, pushed, nIrq, wake_backlog >>
    /\ UNCHANGED << sampleVars, sampleQueue, spiVars, tickVars, midiVars, input16 >>
    /\ Ran("UART")
    /\ UNCHANGED << mainVars, timeVars, rx_busy >>

\* main.c:369: xQueueSendToBack fails on a full queue (at once: its block
\* time is 0 ticks); its result is not looked at and the loop goes on
UARTSendTimeout ==
    /\ uart_pc = "send"
    /\ Len(messageQueue) = MessageQueueLen
    /\ dropped' = Append(dropped, temp8)
    /\ uart_pc' = "read"
    /\ UNCHANGED << UARTsem, usart_rx, temp8, arrived, drained, pushed, nIrq, wake_backlog >>
    /\ UNCHANGED << sampleVars, sampleQueue, spiVars, tickVars, midiVars,
                    messageQueue, input16 >>
    /\ Ran("UART")
    /\ UNCHANGED << mainVars, timeVars, rx_busy >>

vUARTHandlerTask == UARTTake \/ UARTRead \/ UARTSendOk \/ UARTSendTimeout

---------------------------------------------------------------------------
(* vMIDIInterpreter, main.c:393-410 *)

\* main.c:401-408: the non-blocking receive; the branch that would interpret
\* the byte (main.c:403-405) is empty and writes no voice
MIDIRecv ==
    /\ midi_pc = "recv"
    /\ IF messageQueue # << >>
       THEN /\ MIDI_message' = Head(messageQueue)
            /\ messageQueue' = Tail(messageQueue)
            /\ popped' = Append(popped, Head(messageQueue))
            /\ UNCHANGED midi_pc
       ELSE /\ midi_pc' = "yield"
            /\ UNCHANGED << MIDI_message, messageQueue, popped >>
    /\ UNCHANGED << sampleVars, sampleQueue, spiVars, tickVars, uartVars, input16 >>
    /\ Ran("MIDI")
    /\ UNCHANGED << mainVars, timeVars, rx_busy >>

\* main.c:407: taskYIELD() returns
MIDIYield ==
    /\ midi_pc = "yield"
    /\ midi_pc' = "recv"
    /\ UNCHANGED << MIDI_message, popped, messageQueue >>
    /\ UNCHANGED << sampleVars, sampleQueue, spiVars, tickVars, uartVars, input16 >>
    /\ Ran("MIDI")
    /\ UNCHANGED << mainVars, timeVars, rx_busy >>

vMIDIInterpreter == MIDIRecv \/ MIDIYield

---------------------------------------------------------------------------
(* main, main.c:436-560 *)

\* main.c:438-442: system_init and the two clock set-ups; the status each
\* system_clock_source_enable returns is compared and then ignored
\* (main.c:195-198 and 215-218)
MainClocks ==
    /\ main_pc = "start"
    /\ \E osc32k_status \in {"ok", "err"}, dfll_status \in {"ok", "err"} :
          init_status' = << osc32k_status, dfll_status >>
    /\ main_pc' = "usart"
    /\ UNCHANGED << sampleVars, sampleQueue, spiVars, tickVars, uartVars, midiVars,
                    messageQueue, input16, in_prio_order, timeVars, rx_busy >>

\* main.c:445-451: configure_usart repeats usart_init until it returns
\* STATUS_OK (main.c:284-286)
MainUsart ==
    /\ main_pc = "usart"
    /\ \E usart_status \in {"ok", "err"} :
          main_pc' = IF usart_status = "ok" THEN "irq" ELSE "usart"
    /\ UNCHANGED << sampleVars, sampleQueue, spiVars, tickVars, uartVars, midiVars,
                    messageQueue, input16, in_prio_order, timeVars, rx_busy,
                    init_status >>

\* main.c:454: system_interrupt_enable_global; from here on the registered
\* callback (main.c:292-294) can run
MainInterrupts ==
    /\ main_pc = "irq"
    /\ main_pc' = "voice"
    /\ UNCHANGED << sampleVars, sampleQueue, spiVars, tickVars, uartVars, midiVars,
                    messageQueue, input16, in_prio_order, timeVars, rx_busy,
                    init_status >>

\* main.c:457-464: SPI set up, then the first of the four assignments to
\* voice 0: active_voices[0].v_enable = true
MainVoiceEnable ==
    /\ main_pc = "voice"
    /\ active_voices' = [active_voices EXCEPT ![0].v_enable = TRUE]
    /\ main_pc' = "type"
    /\ UNCHANGED << full_queue_flag, sample_buffer, calc_pc, produced, enqueued >>
    /\ UNCHANGED << sampleQueue, spiVars, tickVars, uartVars, midiVars,
                    messageQueue, input16, in_prio_order, timeVars, rx_busy,
                    init_status >>

\* main.c:465: active_voices[0].v_type = TRI
MainVoiceType ==
    /\ main_pc = "type"
    /\ active_voices' = [active_voices EXCEPT ![0].v_type = "TRI"]
    /\ main_pc' = "counter"
    /\ UNCHANGED << full_queue_flag, sample_buffer, calc_pc, produced, enqueued >>
    /\ UNCHANGED << sampleQueue, spiVars, tickVars, uartVars, midiVars,
                    messageQueue, input16, in_prio_order, timeVars, rx_busy,
                    init_status >>

\* main.c:466: active_voices[0].v_counter = 0
MainVoiceCounter ==
    /\ main_pc = "counter"
    /\ active_voices' = [active_voices EXCEPT ![0].v_counter = 0]
    /\ main_pc' = "period"
    /\ UNCHANGED << full_queue_flag, sample_buffer, calc_pc, produced, enqueued >>
    /\ UNCHANGED << sampleQueue, spiVars, tickVars, uartVars, midiVars,
                    messageQueue, input16, in_prio_order, timeVars, rx_busy,
                    init_status >>

\* a plausible slip: the assignment of the period left out
MainVoicePeriod_skipped ==
    /\ main_pc = "period"
    /\ main_pc' = "test"
    /\ UNCHANGED active_voices
    /\ UNCHANGED << full_queue_flag, sample_buffer, calc_pc, produced, enqueued >>
    /\ UNCHANGED << sampleQueue, spiVars, tickVars, uartVars, midiVars,
                    messageQueue, input16, in_prio_order, timeVars, rx_busy,
                    init_status >>

\* main.c:467-469: active_voices[0].v_period = 5, then j = 0
MainVoicePeriod ==
    /\ main_pc = "period"
    /\ active_voices' = [active_voices EXCEPT ![0].v_period = MainPeriod]
    /\ main_pc' = "test"
    /\ UNCHANGED << full_queue_flag, sample_buffer, calc_pc, produced, enqueued >>
    /\ UNCHANGED << sampleQueue, spiVars, tickVars, uartVars, midiVars,
                    messageQueue, input16, in_prio_order, timeVars, rx_busy,
                    init_status >>

\* main.c:464-467 as a whole
MainVoiceSetup == MainVoiceEnable \/ MainVoiceType \/ MainVoiceCounter \/ MainVoicePeriod

\* main.c:491-510: main is in the while(1) of the triangle test, which has
\* no exit
InTestLoop == main_pc \in {"test", "advance", "write"}

\* main.c:493-500: the amplitude of voice j = 0 is stored in sample_buffer
TriangleSample ==
    /\ main_pc = "test"
    /\ LET v == active_voices[0]
       IN  sample_buffer' =
               IF v.v_counter <= v.v_period \div 2
               THEN fraction_of_FFF(v.v_counter * 2, v.v_period) \div 4
               ELSE fraction_of_FFF((v.v_period - v.v_counter) * 2, v.v_period) \div 4
    /\ main_pc' = "advance"
    /\ UNCHANGED << active_voices, full_queue_flag, calc_pc, produced, enqueued >>
    /\ UNCHANGED << sampleQueue, spiVars, tickVars, uartVars, midiVars,
                    messageQueue, input16, in_prio_order, timeVars, rx_busy,
                    init_status >>

\* main.c:503-507: the counter of voice 0 is advanced or reset
TriangleCounter ==
    /\ main_pc = "advance"
    /\ active_voices' = [active_voices EXCEPT ![0] = CounterAdvance(active_voices[0])]
    /\ main_pc' = "write"
    /\ UNCHANGED << sample_buffer, full_queue_flag, calc_pc, produced, enqueued >>
    /\ UNCHANGED << sampleQueue, spiVars, tickVars, uartVars, midiVars,
                    messageQueue, input16, in_prio_order, timeVars, rx_busy,
                    init_status >>

\* main.c:509: write_to_MCP4821(sample_buffer*3); spi_tx and dac_in hold the
\* latest frame only
TriangleWrite ==
    /\ main_pc = "write"
    /\ dac_in' = << (sample_buffer * 3) % 65536 >>
    /\ spi_tx' = write_to_MCP4821((sample_buffer * 3) % 65536)
    /\ main_pc' = "test"
    /\ UNCHANGED << init_status, spi_pc >>
    /\ UNCHANGED << sampleVars >>
    /\ UNCHANGED << sampleQueue, tickVars, uartVars, midiVars,
                    messageQueue, input16, in_prio_order, timeVars, rx_busy >>

\* main.c:491-510: the passes of the test loop
TriangleTest == TriangleSample \/ TriangleCounter \/ TriangleWrite

main == MainClocks \/ MainUsart \/ MainInterrupts \/ MainVoiceSetup \/ TriangleTest

\* main.c:340-349 while main runs: the start of a frame raises the interrupt
\* and the callback calls xSemaphoreGiveFromISR on UARTsem, which nothing has
\* created (main.c:97, and :549 is disabled): a null handle.  What the call
\* does with it is undefined: it returns and main goes on, or the processor
\* faults and main stops
IrqDuringMain ==
    /\ (main_pc \in {"voice", "type", "counter", "period"} \/ InTestLoop)
    /\ ~rx_busy
    /\ Len(arrived) < MaxFrames
    /\ rx_busy' = TRUE
    /\ nIrq' = Min(nIrq + 1, MaxIrq)
    /\ \E outcome \in {"returns", "faults"} :
          main_pc' = IF outcome = "returns" THEN main_pc ELSE "fault"
    /\ UNCHANGED << UARTsem, usart_rx, uart_pc, temp8, arrived, drained, pushed,
                    dropped, wake_backlog, init_status >>
    /\ UNCHANGED << sampleVars, sampleQueue, spiVars, tickVars, midiVars,
                    messageQueue, input16 >>
    /\ UNCHANGED << in_prio_order, timeVars >>

---------------------------------------------------------------------------
(* Direct calls *)

\* main.c:134-173: one call of sample_calc on the bank, its result recorded
SampleCalcLogged ==
    /\ Len(produced) < MaxSamples
    /\ LET r == sample_calc(active_voices, sample_buffer)
       IN  /\ active_voices' = r.voices
           /\ sample_buffer' = r.sample_buffer
           /\ produced' = Append(produced, r.sample_buffer)
    /\ UNCHANGED << full_queue_flag, calc_pc, enqueued, sampleQueue >>
    /\ UNCHANGED << spiVars, tickVars, uartVars, midiVars, messageQueue, input16 >>
    /\ UNCHANGED << in_prio_order, mainVars, timeVars, rx_busy >>

\* main.c:134-173: one call of sample_calc on the bank
SampleCalcCall ==
    /\ LET r == sample_calc(active_voices, sample_buffer)
       IN  /\ active_voices' = r.voices
           /\ sample_buffer' = r.sample_buffer
    /\ UNCHANGED << full_queue_flag, calc_pc, produced, enqueued, sampleQueue >>
    /\ UNCHANGED << spiVars, tickVars, uartVars, midiVars, messageQueue, input16 >>
    /\ UNCHANGED << in_prio_order, mainVars, timeVars, rx_busy >>

\* main.c:116-131: one call of write_to_MCP4821(input16)
DacWrite ==
    /\ dac_in = << >>
    /\ dac_in' = << input16 >>
    /\ spi_tx' = write_to_MCP4821(input16)
    /\ UNCHANGED << spi_pc, sampleVars, sampleQueue, tickVars, uartVars, midiVars,
                    messageQueue, input16 >>
    /\ UNCHANGED << in_prio_order, mainVars, timeVars, rx_busy >>

---------------------------------------------------------------------------
(* Specifications *)

\* the sample path: producer, output task, tick
Next == vSampleCalcTask \/ vPeriodicSPITask \/ Tick

Spec == Init /\ [][Next]_vars

\* the command path: receiver, interrupt, drain task, interpreter
NextCmd == ByteArrives \/ usart_read_callback \/ vUARTHandlerTask \/ vMIDIInterpreter

CmdSpec == InitCmd /\ [][NextCmd]_vars

\* the tasks of the bring-up block under the scheduler's progress guarantee
NextSched == vSampleCalcTask \/ vPeriodicSPITask \/ vMIDIInterpreter \/ Tick

\* what the scheduler guarantees: a task that is again and again the
\* highest-priority ready task runs; ticks come
FairSpec ==
    /\ Init
    /\ [][NextSched]_vars
    /\ SF_vars(Scheduled("Synth") /\ vSampleCalcTask)
    /\ SF_vars(Scheduled("MIDI") /\ vMIDIInterpreter)
    /\ SF_vars(Scheduled("SPI") /\ vPeriodicSPITask)
    /\ WF_vars(Tick)

CalcSpec == InitCalc /\ [][SampleCalcCall]_vars

\* the command path with frames announced at their start, beside the output
\* task, under the fixed-priority scheduler: a task that is scheduled again
\* and again runs, a frame that started completes
NextFrame ==
    FrameStart \/ FrameComplete \/ vUARTHandlerTask \/ vMIDIInterpreter
        \/ vPeriodicSPITask

FrameSpec ==
    /\ InitCmd
    /\ [][NextFrame]_vars
    /\ SF_vars(Scheduled("UART") /\ vUARTHandlerTask)
    /\ SF_vars(Scheduled("MIDI") /\ vMIDIInterpreter)
    /\ SF_vars(Scheduled("SPI") /\ vPeriodicSPITask)
    /\ WF_vars(FrameComplete)

\* the output task against the tick count
NextTimed == vPeriodicSPITask \/ TickTimed

TimedSpec == InitCmd /\ [][NextTimed]_vars

\* main from its entry, beside the frames that reach the receiver and the
\* interrupt they raise; main keeps executing unless the processor faulted
NextMain == main \/ IrqDuringMain \/ FrameComplete

MainSpec == InitMain /\ [][NextMain]_vars /\ WF_vars(main)

\* sample_calc applied to single voices of every waveform, period and phase
WaveSpec == InitWave /\ [][SampleCalcCall]_vars

\* the sample path over banks whose sounding voices start at counter 0
CycleSpec == InitCycle /\ [][SampleCalcLogged]_vars

DacSpec == InitDac /\ [][DacWrite]_vars

---------------------------------------------------------------------------
(* Claims *)

\* the sample vSampleCalcTask still has to hand to sampleQueue, if any
PendingSample ==
    IF calc_pc = "send" \/ full_queue_flag THEN << sample_buffer >> ELSE << >>

\* C1: stall-and-retry loses nothing.  Every computed sample is either in the
\* enqueue history exactly once, in order, or is the one pending sample; while
\* full_queue_flag is set no step changes a voice or sample_buffer or calls
\* sample_calc, and the step that clears the flag enqueues exactly the pending
\* sample.
C1_StallRetryLosesNothing ==
    /\ [](produced = enqueued \o PendingSample)
    /\ [][ full_queue_flag =>
             /\ active_voices' = active_voices
             /\ sample_buffer' = sample_buffer
             /\ produced' = produced
             /\ (~full_queue_flag' =>
                    /\ enqueued' = Append(enqueued, sample_buffer)
                    /\ sampleQueue' = Append(sampleQueue, sample_buffer)) ]_vars

\* C1 witness: the producer is stalled on a full queue, has retried without
\* success, and holds a pending sample that differs from the queued ones
C1_Witness ==
    /\ full_queue_flag
    /\ Len(sampleQueue) = SampleQueueLen
    /\ retriesThisTick >= 1
    /\ Len(produced) = Len(enqueued) + 1
    /\ \A i \in 1..Len(sampleQueue) : sampleQueue[i] # sample_buffer

\* C2: the samples handed to write_to_MCP4821 are a prefix of the samples
\* computed by sample_calc: same values, same order, none skipped or repeated.
C2_TransmittedInOrder ==
    /\ Len(dac_in) <= Len(produced)
    /\ dac_in = SubSeq(produced, 1, Len(dac_in))

\* C2 witness: every computed sample has been transmitted, the producer
\* stalled on the way (more samples than the queue holds) and the samples differ
C2_Witness ==
    /\ Len(dac_in) = MaxSamples
    /\ MaxSamples > SampleQueueLen
    /\ dac_in[1] # dac_in[2]
    /\ dac_in[2] # dac_in[3]

\* the sum the claim C3 speaks of: the amplitudes of all enabled voices
RECURSIVE SumEnabled(_, _)
SumEnabled(bank, j) ==
    IF j >= NVoices THEN 0
    ELSE (IF bank[j].v_enable THEN WaveAmplitude(bank[j]) ELSE 0) + SumEnabled(bank, j + 1)

\* C3: after one call of sample_calc, sample_buffer is the sum of the
\* amplitudes of all enabled voices, each taken at its counter before the call.
C3_SumOfAllEnabledVoices ==
    [][ sample_buffer' = SumEnabled(active_voices, 0) % 65536 ]_<< active_voices, sample_buffer >>

\* what has been drained but neither pushed nor dropped yet
PendingByte == IF uart_pc = "send" THEN << temp8 >> ELSE << >>

\* C4: signal once, drain fully.  The drain task goes back to the semaphore
\* only from a read that found the receiver empty; bytes are read in arrival
\* order, and when nothing was dropped everything that had arrived has been
\* pushed, in arrival order, at the moment the task blocks again.
C4_SignalOnceDrainFully ==
    /\ [](arrived = drained \o usart_rx)
    /\ [](dropped = << >> => drained = pushed \o PendingByte)
    /\ [][ (uart_pc # "take" /\ uart_pc' = "take") =>
             /\ uart_pc = "read"
             /\ usart_rx = << >>
             /\ (dropped = << >> => pushed' = arrived) ]_vars

\* C4 witness: one interrupt, three bytes already waiting when the task woke,
\* all three pushed in arrival order, and the task blocked again
C4_Witness ==
    /\ nIrq = 1
    /\ wake_backlog = 3
    /\ Len(arrived) = 3
    /\ pushed = arrived
    /\ arrived[1] # arrived[2]
    /\ uart_pc = "take"
    /\ UARTsem = 0

\* C5: a push that times out on a full messageQueue drops that one byte.  The
\* step leaves the queue, the push history and the receiver as they are and
\* goes on to the next read; every drained byte is pushed once or dropped
\* once; a task waiting in the push can always leave it.
C5_FullQueueDropsByte ==
    /\ [][ (uart_pc = "send" /\ Len(messageQueue) = MessageQueueLen /\ uart_pc' # "send") =>
             /\ messageQueue' = messageQueue
             /\ pushed' = pushed
             /\ usart_rx' = usart_rx
             /\ drained' = drained
             /\ dropped' = Append(dropped, temp8)
             /\ uart_pc' = "read" ]_vars
    /\ [](Len(drained) = Len(pushed) + Len(dropped) + Len(PendingByte))
    /\ [](uart_pc = "send" => ENABLED vUARTHandlerTask)

\* C5 witness: a byte was dropped on a full queue and the loop has read the
\* next byte, which now waits for its push
C5_Witness ==
    /\ Len(dropped) = 1
    /\ Len(pushed) = MessageQueueLen
    /\ messageQueue = pushed
    /\ uart_pc = "send"
    /\ Len(drained) = MessageQueueLen + 2

\* C6: under the fixed-priority scheduler the interpreter never starves the
\* sample path: in a run whose every task step is taken by the
\* highest-priority ready task, whenever sampleQueue has a free slot
\* vSampleCalcTask eventually enqueues a further sample.
C6_SamplePathNotStarved ==
    \/ <>(~in_prio_order)
    \/ \A k \in 0..(MaxSamples - 1) :
          (Len(sampleQueue) < SampleQueueLen /\ Len(enqueued) = k) ~> (Len(enqueued) > k)

\* C7: at most one sample_calc call, and while stalled at most one retry of
\* the pending enqueue, per scheduler tick.
C7_OncePerTick ==
    /\ calcsThisTick <= 1
    /\ retriesThisTick <= 1

\* C8: a run of the output task dequeues once; it transmits exactly when the
\* queue held a sample, and on an empty queue it sends nothing, leaves the
\* queue as it is and still completes (it does not wait for a sample): every
\* step that takes from the queue or sends takes exactly the head and sends
\* its two bytes, and a pass can always be made, whatever the queue holds.
C8_OneDequeuePerRun ==
    /\ [][ (Len(sampleQueue') < Len(sampleQueue) \/ dac_in' # dac_in \/ spi_tx' # spi_tx) =>
             /\ sampleQueue # << >>
             /\ sampleQueue' = Tail(sampleQueue)
             /\ dac_in' = Append(dac_in, Head(sampleQueue))
             /\ Len(spi_tx') = Len(spi_tx) + 2 ]_vars
    /\ [](Len(spi_tx) = 2 * Len(dac_in))
    /\ [](spi_pc = "run" => ENABLED SPIRun)

\* C8 witness: two passes were made and one sample produced and transmitted,
\* so one pass found the queue empty: nothing is queued, nothing was added
C8_Witness ==
    /\ attempt_gap # -1
    /\ spi_pc = "run"
    /\ sampleQueue = << >>
    /\ calc_pc = "top"
    /\ Len(produced) = 1
    /\ Len(dac_in) = 1
    /\ Len(spi_tx) = 2

\* bit operations on 16-bit values, bit by bit
RECURSIVE BitAnd(_, _, _)
BitAnd(a, b, n) ==
    IF n = 0 THEN 0
    ELSE 2 * BitAnd(a \div 2, b \div 2, n - 1) + (IF a % 2 = 1 /\ b % 2 = 1 THEN 1 ELSE 0)

RECURSIVE BitOr(_, _, _)
BitOr(a, b, n) ==
    IF n = 0 THEN 0
    ELSE 2 * BitOr(a \div 2, b \div 2, n - 1) + (IF a % 2 = 1 \/ b % 2 = 1 THEN 1 ELSE 0)

\* C9: write_to_MCP4821(s) sends two bytes, most significant first, that
\* encode (s & 0xFFF) | 0x3000: 0x30 | ((s >> 8) & 0x0F), then s & 0xFF.
C9_DacFrame ==
    dac_in # << >> =>
        /\ dac_in = << input16 >>
        /\ Len(spi_tx) = 2
        /\ spi_tx[1] = BitOr(48, BitAnd(input16 \div 256, 15, 16), 16)
        /\ spi_tx[2] = BitAnd(input16, 255, 16)
        /\ 256 * spi_tx[1] + spi_tx[2] = BitOr(BitAnd(input16, 4095, 16), 12288, 16)

\* C9 witness: the call was made with all sixteen bits set
C9_Witness ==
    /\ input16 = 65535
    /\ dac_in = << 65535 >>
    /\ spi_tx = << 63, 255 >>

\* C10: every voice of the bank has 0 <= v_counter <= v_period.
C10_CounterWithinPeriod ==
    \A i \in 0..(NVoices - 1) :
        /\ 0 <= active_voices[i].v_counter
        /\ active_voices[i].v_counter <= active_voices[i].v_period

\* C10 witness: sample_calc has run (sample_buffer is not 0) and left two
\* sounding voices, one at the end of its period and one wrapped back to 0
C10_Witness ==
    /\ sample_buffer # 0
    /\ active_voices[3].v_enable
    /\ active_voices[3].v_counter = active_voices[3].v_period
    /\ active_voices[0].v_enable
    /\ active_voices[0].v_counter = 0
    /\ active_voices[0].v_period = CalcMaxPeriod

\* C11: with no command, an enabled voice that started at counter 0 has,
\* after n calls of sample_calc, the counter n modulo (period + 1): it takes
\* 0, 1, ..., period and is back at 0 after exactly period + 1 calls, never
\* earlier; sample_calc leaves the counter of a disabled voice as it was.
C11_CycleOfPeriodPlusOne ==
    /\ [](\A i \in 0..(NVoices - 1) :
            active_voices[i].v_enable =>
                active_voices[i].v_counter =
                    Len(produced) % (active_voices[i].v_period + 1))
    /\ [][\A i \in 0..(NVoices - 1) :
            ~active_voices[i].v_enable =>
                active_voices'[i].v_counter = active_voices[i].v_counter]_vars

\* a voice of period MaxPeriod is back at 0 after MaxPeriod + 1 calls, beside
\* a disabled voice whose counter rests at 1
C11_Witness ==
    /\ Len(produced) = MaxPeriod + 1
    /\ active_voices[3].v_enable
    /\ active_voices[3].v_period = MaxPeriod
    /\ active_voices[3].v_counter = 0
    /\ active_voices[1] = RestingVoice

\* C12: for every waveform, every period >= 1 and every counter in
\* [0, period] the amplitude sample_calc adds for a voice lies in [0, 0x3FF],
\* and a square voice contributes 0x3FF exactly when its counter is at most
\* half the period (integer division), 0 otherwise.
C12_AmplitudeRange ==
    /\ [](\A i \in 0..(NVoices - 1) :
            LET v == active_voices[i]
            IN  v.v_enable =>
                  /\ WaveAmplitude(v) \in 0..1023
                  /\ v.v_type = "SQUARE" =>
                        WaveAmplitude(v) = (IF 2 * v.v_counter <= v.v_period
                                            THEN 1023 ELSE 0))
    /\ [][LET v == active_voices[3]
          IN  /\ sample_buffer' \in 0..1023
              /\ v.v_type = "SQUARE" =>
                    sample_buffer' = (IF 2 * v.v_counter <= v.v_period
                                      THEN 1023 ELSE 0)]_vars

\* a square voice of odd period 5 has just been evaluated at counter 2, the
\* last one of its high half
C12_Witness ==
    /\ active_voices[3].v_type = "SQUARE"
    /\ active_voices[3].v_period = 5
    /\ active_voices[3].v_counter = 3
    /\ sample_buffer = 1023

\* amplitudes of a triangle voice of period 4 at counters 0..4
TriangleOfFour == << 0, 511, 1023, 511, 0 >>

\* the same table with the quarter points at 127
TriangleOfFour_127 == << 0, 127, 1023, 127, 0 >>

\* the bank holds one enabled voice: a triangle of period 4 in the last slot
SingleTriangleOfFour ==
    /\ \A i \in 0..(NVoices - 2) : ~active_voices[i].v_enable
    /\ active_voices[3].v_enable
    /\ active_voices[3].v_type = "TRI"
    /\ active_voices[3].v_period = 4

\* C13 as stated: a single enabled triangle voice of period 4 runs through the
\* counters 0, 1, 2, 3, 4, 0, 1, ... and the amplitudes evaluated at counters
\* 0..4 are 0, 127, 1023, 127, 0.
C13_TriangleQuarter127 ==
    [][SingleTriangleOfFour =>
         /\ active_voices'[3].v_counter = (active_voices[3].v_counter + 1) % 5
         /\ sample_buffer' = TriangleOfFour_127[active_voices[3].v_counter + 1]]_vars

\* C13 amended: a single enabled triangle voice of period 4 runs through the
\* counters 0, 1, 2, 3, 4, 0, 1, ... and the amplitudes evaluated at counters
\* 0..4 are 0, 511, 1023, 511, 0, the ramp being 0xFFF*n/d truncated to an
\* integer and then shifted right by 2.
C13_TriangleOfFour ==
    [][SingleTriangleOfFour =>
         /\ active_voices'[3].v_counter = (active_voices[3].v_counter + 1) % 5
         /\ sample_buffer' = TriangleOfFour[active_voices[3].v_counter + 1]]_vars

\* the voice has just been evaluated at counter 1, a quarter of its cycle
C13_Witness ==
    /\ SingleTriangleOfFour
    /\ active_voices[3].v_counter = 2
    /\ sample_buffer = 511

\* C14: the voice bank is written by the command interpreter only: the
\* sample path reads it and leaves every field of every voice (enabled,
\* waveform, counter, period) unchanged, and no other task and no start-up
\* code writes it once it is created.  No command is ever interpreted while
\* main runs, so no step may change the bank.
C14_BankNeverWritten ==
    [][active_voices' = active_voices]_vars

\* C15: the bank is created with all voices disabled and is so where the
\* tasks would begin to run: once main is through its set-up, with no
\* command interpreted, no voice has enabled = true.
C15_AllVoicesDisabledAtStart ==
    ((InTestLoop \/ main_pc = "tasks") /\ popped = << >>)
        => \A i \in 0..(NVoices - 1) : ~active_voices[i].v_enable

RECURSIVE IsSubsequence(_, _)
IsSubsequence(s, t) ==
    IF s = << >> THEN TRUE
    ELSE IF t = << >> THEN FALSE
    ELSE IF Head(s) = Head(t) THEN IsSubsequence(Tail(s), Tail(t))
    ELSE IsSubsequence(s, Tail(t))

\* C17: under the fixed-priority scheduler, fair to the tasks it schedules,
\* every byte the drain task pushed into messageQueue is eventually dequeued
\* by vMIDIInterpreter, and the bytes are dequeued in the order in which
\* they were read from the input stream.
C17_PushedEventuallyDequeued ==
    /\ [](popped \o messageQueue = pushed)
    /\ [](IsSubsequence(pushed, drained) /\ drained \o usart_rx = arrived)
    /\ \/ <>(~in_prio_order)
       \/ \A k \in 1..MaxFrames : (Len(pushed) >= k) ~> (Len(popped) >= k)

\* C18: the interrupt-to-task signal is binary and loses no data: the
\* pending signals never exceed 1, and, under the fixed-priority scheduler,
\* every byte that becomes available in the receiver is eventually read by
\* the drain task, whenever its interrupt fired.
C18_SignalLosesNoByte ==
    /\ [](UARTsem \in {0, 1})
    /\ \/ <>(~in_prio_order)
       \/ \A k \in 1..MaxFrames : (Len(arrived) >= k) ~> (Len(drained) >= k)

\* C19: with a tick rate of 1 kHz the period of the output task,
\* 50/portTICK_RATE_uS with portTICK_RATE_uS = 1000000/configTICK_RATE_HZ in
\* integer arithmetic, is 50 ticks: consecutive dequeue attempts of the
\* output task are 50 ticks apart, longer than the 1-tick sample period.
C19_AttemptsFiftyTicksApart ==
    (in_prio_order /\ attempt_gap # -1) => (attempt_gap = 50 /\ attempt_gap > 1)

\* C20: after hardware initialisation main eventually creates the queues and
\* the tasks and starts the scheduler, and does so only when the
\* initialisation succeeded.
C20_SchedulerEventuallyStarted ==
    /\ <>(main_pc = "tasks")
    /\ [](main_pc = "tasks" => init_status = << "ok", "ok" >>)

====
